---------------------------- MODULE Spec2Model ----------------------------
(***************************************************************************)
(* A model of the cesium-learn map viewer: the configuration merge utility *)
(* (objectUtils.merge), the option assembly of the cesiumMap component     *)
(* (initCesium), the pinia map store (useMapStore) and the point / wave    *)
(* creation and update functions built on the store's graphic registry.    *)
(***************************************************************************)
EXTENDS Integers, Sequences, FiniteSets, TLC

VARIABLES
    \* ---- objectUtils.merge / initCesium option assembly ----
    pc,           \* "idle" | "call" | "merged" | "configured"
    target,       \* merge's target argument (initCesium: the url file's content)
    source,       \* merge's source argument (initCesium: props.options)
    options,      \* merge's options argument {deep, overwrite}
    merged,       \* what merge returned and what became of the target object
    mapOptions,   \* initCesium's effective map options
    \* ---- useMapStore (stores/modules/mapStore.ts) ----
    map,                 \* shallowRef: the stored map instance, NoMap when null
    isMapLoaded,         \* ref<MapLoadStatus>
    graphicLayer,        \* ref: the GraphicLayer instance (never created)
    isLayerInitialized,  \* ref<boolean>
    droneTrails,         \* Map<string, any>: trail key -> trail data
    graphicMap,          \* Map<string, any>: id -> graphic object
    trailTime,           \* ref<number>
    \* ---- the rendering engine's scene of the stored viewer ----
    entities,            \* map.entities: the entities added, with their entity ids
    primitives,          \* map.scene.primitives: the primitives added
    divs,                \* map.container: the point divs appended
    listeners,           \* map.scene.postRender: the div points listening
    divPoints,           \* the div point objects made so far (each has destroy())
    nextHandle,          \* how many engine / client objects were made so far
    \* ---- the cesiumMap component (components/cesiumMap/index.vue) ----
    props,               \* the props given: url, config, options
    initPc,              \* where initCesium is: "idle", an await, "resolved", "rejected"
    lifecycle,           \* "created" | "mounted" | "unmounted"
    cesiumContainer,     \* the template ref: TRUE while it holds the element
    componentMap,        \* the component's own `map`: NoMap or the viewer
    viewerState,         \* the viewer made: "none" | "alive" | "destroyed"
    heldContainer,       \* the container read for the constructor before an await
    emitted,             \* emit("onload"): "no", or the lifecycle at the call
    caught,              \* TRUE once the catch of initCesium logged an error
    \* ---- the time of the page, in seconds ----
    clock,
    \* ---- the last call and what it returned ----
    last

mergeVars == <<pc, target, source, options, merged, mapOptions>>
storeVars == <<map, isMapLoaded, graphicLayer, isLayerInitialized, droneTrails,
               graphicMap, trailTime>>
sceneVars == <<entities, primitives, divs, listeners, divPoints, nextHandle>>
mountVars == <<props, initPc, lifecycle, cesiumContainer, componentMap, viewerState,
               heldContainer, emitted, caught>>
vars == <<mergeVars, storeVars, sceneVars, mountVars, clock, last>>

-----------------------------------------------------------------------------
(* JavaScript values.  Every value carries its type tag; an object or an    *)
(* array holds its own properties as a function from property keys (always *)
(* strings in JavaScript, "0", "1", ... for array indices) to values.       *)

Undef == [t |-> "undefined"]
Null == [t |-> "null"]
Prim(n) == [t |-> "prim", v |-> n]
EmptyObj == [t |-> "obj", f |-> <<>>]
EmptyArr == [t |-> "arr", f |-> <<>>]

\* typeof v === 'object' && v !== null
IsObjectType(v) == v.t \in {"obj", "arr"}
\* Array.isArray(v)
IsArray(v) == v.t = "arr"
\* the truthiness of v in a condition
Truthy(v) == IsObjectType(v) \/ (v.t = "prim" /\ v.v # 0)

\* property keys of array indices: String(i)
IndexKeys == <<"0", "1", "2", "3", "4", "5">>
IdxKey(i) == IndexKeys[i + 1]

\* v[k]: a property read, undefined when v has no own property k
Get(v, k) == IF k \in DOMAIN v.f THEN v.f[k] ELSE Undef
\* v[k] = x: a property write
Put(v, k, x) ==
    [v EXCEPT !.f = [j \in (DOMAIN v.f) \cup {k} |-> IF j = k THEN x ELSE v.f[j]]]
\* arr.length: one more than the largest index held
Length(v) ==
    LET held == {i \in 0..(Len(IndexKeys) - 1) : IdxKey(i) \in DOMAIN v.f}
    IN IF held = {} THEN 0 ELSE (CHOOSE i \in held : \A j \in held : j <= i) + 1

-----------------------------------------------------------------------------
(* objectUtils.merge(target, source, {deep, overwrite}).                    *)
(* The result records the returned value (ret), which object is returned   *)
(* (id: the caller's target, the caller's source, or an object made by the *)
(* call), and the caller's target after the call (tgt: merge writes into   *)
(* the target in place).                                                   *)

RECURSIVE merge(_, _, _, _)
RECURSIVE forEachItem(_, _, _, _, _)
RECURSIVE forEachKey(_, _, _, _, _)

\* sourceArr.forEach((item, index) => ...), from index i on
forEachItem(t, src, deep, overwrite, i) ==
    IF i >= Length(src) THEN t
    ELSE LET item == Get(src, IdxKey(i))
             tv == Get(t, IdxKey(i))
             t2 == IF tv = Undef
                   THEN Put(t, IdxKey(i), item)
                   ELSE Put(t, IdxKey(i), merge(tv, item, deep, overwrite).ret)
         IN forEachItem(t2, src, deep, overwrite, i + 1)

\* the body of Object.keys(sourceObj).forEach((key) => ...) for one key
mergeKey(t, src, deep, overwrite, key) ==
    LET sourceValue == src.f[key]
        targetValue == Get(t, key)
    IN IF deep /\ sourceValue.t = "obj"
       THEN IF ~IsObjectType(targetValue)
            \* targetObj[key] = {}; the recursive call then merges into a new
            \* object of its own, which nothing keeps
            THEN Put(t, key, EmptyObj)
            \* the recursive call writes into targetValue in place
            ELSE Put(t, key, merge(targetValue, sourceValue, deep, overwrite).tgt)
       ELSE IF overwrite \/ targetValue = Undef
            THEN Put(t, key, sourceValue)
            ELSE t

\* Object.keys(sourceObj).forEach((key) => ...), over the keys still to visit
forEachKey(t, src, deep, overwrite, keys) ==
    IF keys = {} THEN t
    ELSE LET key == CHOOSE k \in keys : TRUE
         IN forEachKey(mergeKey(t, src, deep, overwrite, key), src, deep, overwrite,
                       keys \ {key})

merge(tgt, src, deep, overwrite) ==
    IF ~IsObjectType(src)
    THEN [ret |-> tgt, id |-> "target", tgt |-> tgt]
    ELSE LET made == ~IsObjectType(tgt)
             t0 == IF made THEN (IF IsArray(src) THEN EmptyArr ELSE EmptyObj) ELSE tgt
             who == IF made THEN "made" ELSE "target"
         IN IF IsArray(src)
            THEN IF ~deep
                 THEN IF overwrite
                      THEN [ret |-> src, id |-> "source", tgt |-> tgt]
                      ELSE [ret |-> t0, id |-> who, tgt |-> tgt]
                 ELSE LET t1 == forEachItem(t0, src, deep, overwrite, 0)
                      IN [ret |-> t1, id |-> who, tgt |-> IF made THEN tgt ELSE t1]
            ELSE LET t1 == forEachKey(t0, src, deep, overwrite, DOMAIN src.f)
                 IN [ret |-> t1, id |-> who, tgt |-> IF made THEN tgt ELSE t1]

-----------------------------------------------------------------------------
(* The values the merge is exercised on: every JSON value of at most       *)
(* MaxNodes nodes over two property names and the primitives 0..MaxPrim.   *)

MaxNodes == 3
MaxPrim == 1
Keys == {"a", "b"}
Leaves == {Prim(n) : n \in 0..MaxPrim} \cup {Null}

\* the keys a one-property extension of container c may add
NewKeys(c) == IF IsArray(c) THEN {IdxKey(Length(c))} ELSE Keys \ DOMAIN c.f

RECURSIVE BySize(_)
BySize(n) ==
    IF n = 1 THEN Leaves \cup {EmptyObj, EmptyArr}
    ELSE UNION { UNION { UNION { {Put(c, k, x) : k \in NewKeys(c)}
                                 : x \in BySize(m) }
                         : c \in {d \in BySize(n - m) : IsObjectType(d)} }
                 : m \in 1..(n - 1) }

Values == UNION {BySize(n) : n \in 1..MaxNodes}
Args == Values \cup {Undef}

-----------------------------------------------------------------------------
(* Key paths.                                                              *)

\* the value at the end of a chain of keys, undefined when the chain breaks
RECURSIVE ValAt(_, _)
ValAt(v, path) ==
    IF path = <<>> THEN v
    ELSE IF ~IsObjectType(v) THEN Undef
    ELSE ValAt(Get(v, Head(path)), Tail(path))

\* the chains of object keys of v that end in a value that is no object
RECURSIVE LeafPaths(_)
LeafPaths(v) ==
    IF v.t # "obj" THEN {}
    ELSE UNION { IF v.f[k].t = "obj"
                 THEN {<<k>> \o p : p \in LeafPaths(v.f[k])}
                 ELSE {<<k>>}
                 : k \in DOMAIN v.f }

-----------------------------------------------------------------------------
(* index.vue initCesium, lines 39-64: the effective options from the url   *)
(* file (file: what getJsonFile resolved to, undefined when the fetch      *)
(* failed) and props.options.                                              *)

initCesiumOptions(urlGiven, file, propsOptions) ==
    LET fromUrl == IF urlGiven THEN file ELSE Undef
    IN IF Truthy(propsOptions)
       THEN IF Truthy(fromUrl)
            THEN merge(fromUrl, propsOptions, TRUE, TRUE).ret
            ELSE propsOptions
       ELSE fromUrl

-----------------------------------------------------------------------------
(* useMapStore (stores/modules/mapStore.ts).                               *)

\* enum MapLoadStatus
UNLOADED == 0
LOADING == 1
LOADED == 2
FAILED == 3
MapLoadStatus == {UNLOADED, LOADING, LOADED, FAILED}

\* the map instances a caller may store: null, or the viewer the component made
NoMap == "null"
Viewer == "viewer"
MapInstances == {NoMap, Viewer}

\* identifiers are strings, modelled as sequences of characters
Ids == {<<"a">>, <<"b">>}
\* `${droneId}_trail`
TrailSuffix == <<"_", "t", "r", "a", "i", "l">>
trailKey(droneId) == droneId \o TrailSuffix
\* a variant of the suffix test that looks at the front of the key
startsWith(key, suffix) ==
    /\ Len(key) >= Len(suffix)
    /\ SubSeq(key, 1, Len(suffix)) = suffix
\* key.endsWith(suffix)
endsWith(key, suffix) ==
    /\ Len(key) >= Len(suffix)
    /\ SubSeq(key, Len(key) - Len(suffix) + 1, Len(key)) = suffix

\* Map.prototype.set / get / has / delete
MapSet(m, k, v) == [j \in (DOMAIN m) \cup {k} |-> IF j = k THEN v ELSE m[j]]
MapGet(m, k) == IF k \in DOMAIN m THEN m[k] ELSE Undef
MapHas(m, k) == k \in DOMAIN m
MapDelete(m, k) == [j \in (DOMAIN m) \ {k} |-> m[j]]

\* what a call returned: a reference to an object, a boolean, a number, trail
\* data, a thrown exception, null or undefined
Ref(g) == IF g = Undef THEN Undef ELSE [t |-> "ref", h |-> g.h]
Bool(b) == [t |-> "bool", v |-> b]
Num(n) == [t |-> "number", v |-> n]
Throws == [t |-> "throws"]
NoId == <<>>
\* the last call: the function, the id it was given, its other argument, whether the
\* id (or how many keys) the call is about was held before it, and what it returned
Call(op, id, arg, before, ret) ==
    [op |-> op, id |-> id, arg |-> arg, before |-> before, ret |-> ret]

\* mapStatus (computed): the status entry of MAP_STATUS_MAP
mapStatus == IF isMapLoaded \in MapLoadStatus THEN isMapLoaded ELSE -1

setMapLoadSta(status) ==
    /\ isMapLoaded' = status
    /\ last' = Call("setMapLoadSta", NoId, Num(status), Undef,
                  Undef)
    /\ UNCHANGED <<map, graphicLayer, isLayerInitialized, droneTrails, graphicMap, trailTime,
                 mergeVars, mountVars, clock, sceneVars>>

resetMapLoadSta ==
    /\ isMapLoaded' = UNLOADED
    /\ last' = Call("resetMapLoadSta", NoId, Undef, Undef,
                  Undef)
    /\ UNCHANGED <<map, graphicLayer, isLayerInitialized, droneTrails, graphicMap, trailTime,
                 mergeVars, mountVars, clock, sceneVars>>

setMap(mapInstance) ==
    /\ map' = mapInstance
    /\ last' = Call("setMap", NoId, [t |-> "map", v |-> mapInstance], Undef,
                  Undef)
    /\ UNCHANGED <<isMapLoaded, graphicLayer, isLayerInitialized, droneTrails, graphicMap, trailTime,
                 mergeVars, mountVars, clock, sceneVars>>

\* a variant of getMap that always finds a viewer
getMapAlways(m) == [t |-> "map", v |-> Viewer]
\* what getMap returns of the stored instance m: map.value
getMapOf(m) == IF m = NoMap THEN Null ELSE [t |-> "map", v |-> m]

getMap ==
    /\ last' = Call("getMap", NoId, Undef, Undef, getMapOf(map))
    /\ UNCHANGED <<map, isMapLoaded, graphicLayer, isLayerInitialized, droneTrails, graphicMap, trailTime,
                 mergeVars, mountVars, clock, sceneVars>>

setTrailTime(time) ==
    /\ trailTime' = time
    /\ last' = Call("setTrailTime", NoId, Num(time), Undef,
                  Undef)
    /\ UNCHANGED <<map, isMapLoaded, graphicLayer, isLayerInitialized, droneTrails, graphicMap,
                 mergeVars, mountVars, clock, sceneVars>>

\* a variant of getTrailTime that always answers the endless retention
getTrailTimeForever(time) == 0 - 1
\* return trailTime.value
getTrailTimeOf(time) == time

getTrailTime ==
    /\ last' = Call("getTrailTime", NoId, Undef, Undef,
                  Num(getTrailTimeOf(trailTime)))
    /\ UNCHANGED <<map, isMapLoaded, graphicLayer, isLayerInitialized, droneTrails, graphicMap, trailTime,
                 mergeVars, mountVars, clock, sceneVars>>

\* the body of getOrCreateGraphicLayer is commented out: it returns undefined
getOrCreateGraphicLayer ==
    /\ last' = Call("getOrCreateGraphicLayer", NoId, Undef, Undef,
                  Undef)
    /\ UNCHANGED <<map, isMapLoaded, graphicLayer, isLayerInitialized, droneTrails, graphicMap, trailTime,
                 mergeVars, mountVars, clock, sceneVars>>

\* a variant of setGraphicMap that keeps the entry an id already has
setGraphicMapIfAbsent(m, id, graphic) == IF MapHas(m, id) THEN m ELSE MapSet(m, id, graphic)
setGraphicMapTo(m, id, graphic) == MapSet(m, id, graphic)

setGraphicMap(id, graphic) ==
    /\ graphicMap' = setGraphicMapTo(graphicMap, id, graphic)
    /\ last' = Call("setGraphicMap", id, Ref(graphic), Bool(MapHas(graphicMap, id)),
                  Undef)
    /\ UNCHANGED <<map, isMapLoaded, graphicLayer, isLayerInitialized, droneTrails, trailTime,
                 mergeVars, mountVars, clock, sceneVars>>

\* a variant of getGraphicMap that finds nothing
getGraphicMapNone(m, id) == Undef
getGraphicMapOf(m, id) == MapGet(m, id)

getGraphicMap(id) ==
    /\ last' = Call("getGraphicMap", id, Undef, Bool(MapHas(graphicMap, id)),
                  Ref(getGraphicMapOf(graphicMap, id)))
    /\ UNCHANGED <<map, isMapLoaded, graphicLayer, isLayerInitialized, droneTrails, graphicMap, trailTime,
                 mergeVars, mountVars, clock, sceneVars>>

hasGraphicMapIn(m, id) == MapHas(m, id)

hasGraphicMap(id) ==
    /\ last' = Call("hasGraphicMap", id, Undef, Bool(MapHas(graphicMap, id)),
                  Bool(hasGraphicMapIn(graphicMap, id)))
    /\ UNCHANGED <<map, isMapLoaded, graphicLayer, isLayerInitialized, droneTrails, graphicMap, trailTime,
                 mergeVars, mountVars, clock, sceneVars>>

removeGraphicMapFrom(m, id) == MapDelete(m, id)

removeGraphicMap(id) ==
    /\ graphicMap' = removeGraphicMapFrom(graphicMap, id)
    /\ last' = Call("removeGraphicMap", id, Undef, Bool(MapHas(graphicMap, id)),
                  Undef)
    /\ UNCHANGED <<map, isMapLoaded, graphicLayer, isLayerInitialized, droneTrails, trailTime,
                 mergeVars, mountVars, clock, sceneVars>>

\* a variant of setDroneTrail that keys the trail by the bare drone id
setDroneTrailUnderId(m, droneId, trailData) == MapSet(m, droneId, trailData)
setDroneTrailTo(m, droneId, trailData) == MapSet(m, trailKey(droneId), trailData)

setDroneTrail(droneId, trailData) ==
    /\ droneTrails' = setDroneTrailTo(droneTrails, droneId, trailData)
    /\ last' = Call("setDroneTrail", droneId, trailData, Bool(MapHas(droneTrails, trailKey(droneId))),
                  Undef)
    /\ UNCHANGED <<map, isMapLoaded, graphicLayer, isLayerInitialized, graphicMap, trailTime,
                 mergeVars, mountVars, clock, sceneVars>>

\* a variant of getDroneTrail that finds no trail
getDroneTrailNone(m, droneId) == Undef
getDroneTrailOf(m, droneId) == MapGet(m, trailKey(droneId))

getDroneTrail(droneId) ==
    /\ last' = Call("getDroneTrail", droneId, Undef, Bool(MapHas(droneTrails, trailKey(droneId))),
                  getDroneTrailOf(droneTrails, droneId))
    /\ UNCHANGED <<map, isMapLoaded, graphicLayer, isLayerInitialized, droneTrails, graphicMap, trailTime,
                 mergeVars, mountVars, clock, sceneVars>>

hasDroneTrailIn(m, droneId) == MapHas(m, trailKey(droneId))

hasDroneTrail(droneId) ==
    /\ last' = Call("hasDroneTrail", droneId, Undef, Bool(MapHas(droneTrails, trailKey(droneId))),
                  Bool(hasDroneTrailIn(droneTrails, droneId)))
    /\ UNCHANGED <<map, isMapLoaded, graphicLayer, isLayerInitialized, droneTrails, graphicMap, trailTime,
                 mergeVars, mountVars, clock, sceneVars>>

clearDroneTrailFrom(m, droneId) == MapDelete(m, trailKey(droneId))

clearDroneTrail(droneId) ==
    /\ droneTrails' = clearDroneTrailFrom(droneTrails, droneId)
    /\ last' = Call("clearDroneTrail", droneId, Undef, Bool(MapHas(droneTrails, trailKey(droneId))),
                  Undef)
    /\ UNCHANGED <<map, isMapLoaded, graphicLayer, isLayerInitialized, graphicMap, trailTime,
                 mergeVars, mountVars, clock, sceneVars>>

\* droneTrails.forEach((_, key) => { if (key.endsWith('_trail')) droneTrails.delete(key) }),
\* over the keys still to visit
RECURSIVE clearAllFrom(_, _)
clearAllFrom(m, keys) ==
    IF keys = {} THEN m
    ELSE LET key == CHOOSE k \in keys : TRUE
         IN clearAllFrom(IF endsWith(key, TrailSuffix) THEN MapDelete(m, key) ELSE m,
                         keys \ {key})

clearAllDroneTrails ==
    /\ droneTrails' = clearAllFrom(droneTrails, DOMAIN droneTrails)
    /\ last' = Call("clearAllDroneTrails", NoId, Undef, Num(Cardinality(DOMAIN droneTrails)),
                  Undef)
    /\ UNCHANGED <<map, isMapLoaded, graphicLayer, isLayerInitialized, graphicMap, trailTime,
                 mergeVars, mountVars, clock, sceneVars>>

\* graphicLayer.value is never set, so there is nothing to clear
clearLayer ==
    /\ last' = Call("clearLayer", NoId, Undef, Undef,
                  Undef)
    /\ UNCHANGED <<map, isMapLoaded, graphicLayer, isLayerInitialized, droneTrails, graphicMap, trailTime,
                 mergeVars, mountVars, clock, sceneVars>>

resetLayer ==
    /\ graphicLayer' = NoMap
    /\ isLayerInitialized' = FALSE
    /\ last' = Call("resetLayer", NoId, Undef, Undef,
                  Undef)
    /\ UNCHANGED <<map, isMapLoaded, droneTrails, graphicMap, trailTime,
                 mergeVars, mountVars, clock, sceneVars>>

-----------------------------------------------------------------------------
(* Initial states.                                                         *)

NoResult == [ret |-> Undef, id |-> "none", tgt |-> Undef]
NoOptions == [deep |-> TRUE, overwrite |-> TRUE]
NoCall == Call("none", NoId, Undef, Undef, Undef)

MergeIdle ==
    /\ pc = "idle"
    /\ target = Undef
    /\ source = Undef
    /\ options = NoOptions
    /\ merged = NoResult
    /\ mapOptions = [urlGiven |-> FALSE, value |-> Undef]

StoreInit ==
    /\ map = NoMap
    /\ isMapLoaded = UNLOADED
    /\ graphicLayer = NoMap
    /\ isLayerInitialized = FALSE
    /\ droneTrails = <<>>
    /\ graphicMap = <<>>
    /\ trailTime = 30

\* the component before it is created: no props, nothing mounted
NoProps == [url |-> FALSE, config |-> FALSE, options |-> "none"]
MountIdle ==
    /\ props = NoProps
    /\ initPc = "idle"
    /\ lifecycle = "created"
    /\ cesiumContainer = FALSE
    /\ componentMap = NoMap
    /\ viewerState = "none"
    /\ heldContainer = FALSE
    /\ emitted = "no"
    /\ caught = FALSE

SceneInit ==
    /\ entities = {}
    /\ primitives = {}
    /\ divs = {}
    /\ listeners = {}
    /\ divPoints = {}
    /\ nextHandle = 0
    /\ clock = 0

-----------------------------------------------------------------------------
(* The merge specification: arguments drawn from Args, then one call.      *)

InitMerge ==
    /\ pc = "call"
    /\ target \in Args
    /\ source \in Args
    /\ options = NoOptions
    /\ merged = NoResult
    /\ mapOptions = [urlGiven |-> FALSE, value |-> Undef]
    /\ StoreInit /\ SceneInit /\ MountIdle /\ last = NoCall

CallMerge ==
    /\ pc = "call"
    /\ \E deep \in BOOLEAN, overwrite \in BOOLEAN :
          /\ options' = [deep |-> deep, overwrite |-> overwrite]
          /\ merged' = merge(target, source, deep, overwrite)
    /\ pc' = "merged"
    /\ UNCHANGED <<target, source, mapOptions, storeVars, sceneVars, mountVars, clock, last>>

InitCesium ==
    /\ pc = "call"
    /\ \E urlGiven \in BOOLEAN :
          mapOptions' = [urlGiven |-> urlGiven,
                         value |-> initCesiumOptions(urlGiven, target, source)]
    /\ pc' = "configured"
    /\ UNCHANGED <<target, source, options, merged, storeVars, sceneVars, mountVars, clock, last>>

NextMerge == CallMerge \/ InitCesium

SpecMerge == InitMerge /\ [][NextMerge]_vars

-----------------------------------------------------------------------------
(* The store specification: any sequence of calls of the store's functions *)
(* by a client that registers objects of its own.                          *)

MaxObjects == 3
Here == <<117, 31, 0>>
There == <<118, 32, 100>>
Positions == {Here, There}
\* trail data: the list of the trail's points
Trail(points) == [t |-> "trail", points |-> points]
TrailData == {Trail(<<Here>>), Trail(<<Here, There>>)}
TrailTimes == {-1, 30}

\* an object a client made: the n-th object made
ClientGraphic(n) == [t |-> "graphic", h |-> n, kind |-> "client", opts |-> <<>>]

ClientSetGraphic(id) ==
    \/ /\ nextHandle < MaxObjects
       /\ graphicMap' = setGraphicMapTo(graphicMap, id, ClientGraphic(nextHandle + 1))
       /\ nextHandle' = nextHandle + 1
       /\ last' = Call("setGraphicMap", id, Ref(ClientGraphic(nextHandle + 1)),
                       Bool(MapHas(graphicMap, id)), Undef)
       /\ UNCHANGED <<map, isMapLoaded, graphicLayer, isLayerInitialized, droneTrails,
                      trailTime, mergeVars, mountVars, clock, entities, primitives, divs, listeners,
                      divPoints>>
    \/ \E other \in DOMAIN graphicMap : setGraphicMap(id, graphicMap[other])

NextStore ==
    \/ \E status \in MapLoadStatus : setMapLoadSta(status)
    \/ resetMapLoadSta
    \/ \E m \in MapInstances : setMap(m)
    \/ getMap
    \/ \E time \in TrailTimes : setTrailTime(time)
    \/ getTrailTime
    \/ getOrCreateGraphicLayer
    \/ \E id \in Ids : ClientSetGraphic(id)
    \/ \E id \in Ids : getGraphicMap(id)
    \/ \E id \in Ids : hasGraphicMap(id)
    \/ \E id \in Ids : removeGraphicMap(id)
    \/ \E d \in Ids, trailData \in TrailData : setDroneTrail(d, trailData)
    \/ \E d \in Ids : getDroneTrail(d)
    \/ \E d \in Ids : hasDroneTrail(d)
    \/ \E d \in Ids : clearDroneTrail(d)
    \/ clearAllDroneTrails
    \/ clearLayer
    \/ resetLayer

InitStore == MergeIdle /\ StoreInit /\ SceneInit /\ MountIdle /\ last = NoCall

SpecStore == InitStore /\ [][NextStore]_vars

-----------------------------------------------------------------------------
(* The component functions: setPoint.ts (points), geometry.ts (waves).     *)

\* an object a component function made, the h-th object made; opts is what the
\* function hung on it as _originalOptions (nothing for a point), matrix what its
\* modelMatrix was computed from
Graphic(h, kind, opts, matrix) ==
    [t |-> "graphic", h |-> h, kind |-> kind, opts |-> opts, matrix |-> matrix]
NoOpts == <<>>

\* the id the engine gives an entity added without one (createGuid)
Guid(h) == <<"#", IdxKey(h)>>
Entity(h, eid) == [h |-> h, eid |-> eid]

\* what the component functions never touch
storeRest == <<isMapLoaded, graphicLayer, isLayerInitialized, trailTime>>

\* a call that returns early: nothing changes but the record of the call
Returns(op, id, ret) ==
    /\ last' = Call(op, id, Undef, Bool(MapHas(graphicMap, id)), ret)
    /\ UNCHANGED <<mergeVars, mountVars, clock, storeVars, sceneVars>>

\* setPoint.ts setPointEntityByImg
setPointEntityByImg(id) ==
    IF getMapOf(map) = Null THEN Returns("setPointEntityByImg", id, Null)
    ELSE IF hasGraphicMapIn(graphicMap, id)
    THEN Returns("setPointEntityByImg", id, Ref(getGraphicMapOf(graphicMap, id)))
    ELSE LET h == nextHandle + 1
             pointEntity == Graphic(h, "entity", NoOpts, NoOpts)
         IN /\ nextHandle < MaxObjects
            /\ entities' = entities \cup {Entity(h, Guid(h))}
            /\ graphicMap' = setGraphicMapTo(graphicMap, id, pointEntity)
            /\ nextHandle' = h
            /\ last' = Call("setPointEntityByImg", id, Undef, Bool(FALSE), Ref(pointEntity))
            /\ UNCHANGED <<mergeVars, mountVars, clock, map, storeRest, droneTrails, primitives, divs,
                           listeners, divPoints>>

\* setPoint.ts setPointPrimitiveByImg
setPointPrimitiveByImg(id) ==
    IF getMapOf(map) = Null THEN Returns("setPointPrimitiveByImg", id, Null)
    ELSE IF hasGraphicMapIn(graphicMap, id)
    THEN Returns("setPointPrimitiveByImg", id, Ref(getGraphicMapOf(graphicMap, id)))
    ELSE LET h == nextHandle + 1
             result == Graphic(h, "divPoint", NoOpts, NoOpts)
         IN /\ nextHandle < MaxObjects
            /\ divs' = divs \cup {h}
            /\ listeners' = listeners \cup {h}
            /\ divPoints' = divPoints \cup {[h |-> h, id |-> id]}
            /\ graphicMap' = setGraphicMapTo(graphicMap, id, result)
            /\ nextHandle' = h
            /\ last' = Call("setPointPrimitiveByImg", id, Undef, Bool(FALSE), Ref(result))
            /\ UNCHANGED <<mergeVars, mountVars, clock, map, storeRest, droneTrails, entities, primitives>>

\* setPoint.ts setPointPrimitiveByImg, result.destroy of the div point p
destroy(p) ==
    /\ listeners' = listeners \ {p.h}
    /\ divs' = divs \ {p.h}
    /\ graphicMap' = removeGraphicMapFrom(graphicMap, p.id)
    /\ last' = Call("destroy", p.id, Undef, Bool(MapHas(graphicMap, p.id)), Undef)
    /\ UNCHANGED <<mergeVars, mountVars, clock, map, storeRest, droneTrails, entities, primitives,
                   divPoints, nextHandle>>

\* setPoint.ts setPointByGlb
setPointByGlb(id) ==
    IF getMapOf(map) = Null THEN Returns("setPointByGlb", id, Null)
    ELSE IF hasGraphicMapIn(graphicMap, id)
    THEN Returns("setPointByGlb", id, Ref(getGraphicMapOf(graphicMap, id)))
    ELSE LET h == nextHandle + 1
             modelEntity == Graphic(h, "glb", NoOpts, NoOpts)
         IN /\ nextHandle < MaxObjects
            /\ entities' = entities \cup {Entity(h, Guid(h))}
            /\ graphicMap' = setGraphicMapTo(graphicMap, id, modelEntity)
            /\ nextHandle' = h
            /\ last' = Call("setPointByGlb", id, Undef, Bool(FALSE), Ref(modelEntity))
            /\ UNCHANGED <<mergeVars, mountVars, clock, map, storeRest, droneTrails, primitives, divs,
                           listeners, divPoints>>

\* the distance, in metres, a drone must have moved from the last point of its trail
\* for its position to become a new point
DistanceThreshold == 1

\* Cartesian3.distance(p, q) > d for positions in metres, compared on the squares
Farther(p, q, d) ==
    (p[1] - q[1]) * (p[1] - q[1]) + (p[2] - q[2]) * (p[2] - q[2])
        + (p[3] - q[3]) * (p[3] - q[3]) > d * d

\* the trail setPath keeps for a drone: its points, oldest first, and the time each
\* was added at
TimedTrail(points, times) == [t |-> "trail", points |-> points, times |-> times]

\* the trail without the points older than the retention time T; a negative T keeps
\* every point
Retained(trail, now, T) ==
    IF T < 0 THEN trail
    ELSE LET kept == {i \in 1..Len(trail.points) : now - trail.times[i] <= T}
             from == IF kept = {} THEN Len(trail.points) + 1
                     ELSE CHOOSE i \in kept : \A j \in kept : i <= j
         IN TimedTrail(SubSeq(trail.points, from, Len(trail.points)),
                       SubSeq(trail.times, from, Len(trail.times)))

\* setPath().setDroneTrail(id, position) at the time now with the retention time T:
\* the position becomes a new point of the drone's trail when the trail has no point
\* or the position is farther than the threshold from its last point; then the points
\* older than the retention time are dropped
setPathDroneTrail(trails, droneId, position, now, T) ==
    LET old == getDroneTrailOf(trails, droneId)
        trail == IF old = Undef THEN TimedTrail(<<>>, <<>>) ELSE old
        n == Len(trail.points)
        sampled == IF n = 0 \/ Farther(position, trail.points[n], DistanceThreshold)
                   THEN TimedTrail(Append(trail.points, position),
                                   Append(trail.times, now))
                   ELSE trail
    IN setDroneTrailTo(trails, droneId, Retained(sampled, now, T))

\* setPoint.ts setDronePointByGlb
setDronePointByGlb(id, position) ==
    IF getMapOf(map) = Null THEN Returns("setDronePointByGlb", id, Null)
    ELSE IF hasGraphicMapIn(graphicMap, id)
    THEN Returns("setDronePointByGlb", id, Ref(getGraphicMapOf(graphicMap, id)))
    ELSE IF \E e \in entities : e.eid = id
    \* map.entities.add throws: an entity with this id is in the collection
    THEN Returns("setDronePointByGlb", id, Throws)
    ELSE LET h == nextHandle + 1
             modelEntity == Graphic(h, "drone", NoOpts, NoOpts)
         IN /\ nextHandle < MaxObjects
            /\ entities' = entities \cup {Entity(h, id)}
            /\ droneTrails' = setPathDroneTrail(droneTrails, id, position, clock,
                                                getTrailTimeOf(trailTime))
            /\ graphicMap' = setGraphicMapTo(graphicMap, id, modelEntity)
            /\ nextHandle' = h
            /\ last' = Call("setDronePointByGlb", id, Undef, Bool(FALSE), Ref(modelEntity))
            /\ UNCHANGED <<mergeVars, mountVars, clock, map, storeRest, primitives, divs, listeners,
                           divPoints>>

\* what a wave's model matrix is computed from: the vertex position, the heading and
\* pitch of the HeadingPitchRoll, and the length the translation halves
ModelMatrix(positions, heading, pitch, length) ==
    [positions |-> positions, heading |-> heading, pitch |-> pitch, length |-> length]

\* a variant of the wave functions' check that never finds an effect
hasEffectNever(id) == FALSE
\* a wave function's check for an effect of the same id: getGraphicMap(id) is truthy
hasEffect(id) == getGraphicMapOf(graphicMap, id) # Undef

\* geometry.ts conicalWave
conicalWave(id, o) ==
    IF getMapOf(map) = Null THEN Returns("conicalWave", id, Null)
    ELSE IF hasEffect(id) THEN Returns("conicalWave", id, Null)
    ELSE LET h == nextHandle + 1
             primitive == Graphic(h, "cone", o,
                                  ModelMatrix(o.positions, o.heading, o.pitch, o.length))
         IN /\ nextHandle < MaxObjects
            /\ graphicMap' = setGraphicMapTo(graphicMap, id, primitive)
            /\ primitives' = primitives \cup {h}
            /\ nextHandle' = h
            /\ last' = Call("conicalWave", id, Undef, Bool(FALSE), Ref(primitive))
            /\ UNCHANGED <<mergeVars, mountVars, clock, map, storeRest, droneTrails, entities, divs,
                           listeners, divPoints>>

\* geometry.ts rectangularPyramidWave
rectangularPyramidWave(id, o) ==
    IF getMapOf(map) = Null THEN Returns("rectangularPyramidWave", id, Null)
    ELSE IF hasEffect(id) THEN Returns("rectangularPyramidWave", id, Null)
    ELSE LET h == nextHandle + 1
             primitive == Graphic(h, "pyramid", o,
                                  ModelMatrix(o.positions, o.heading, o.pitch, o.height))
         IN /\ nextHandle < MaxObjects
            /\ graphicMap' = setGraphicMapTo(graphicMap, id, primitive)
            /\ primitives' = primitives \cup {h}
            /\ nextHandle' = h
            /\ last' = Call("rectangularPyramidWave", id, Undef, Bool(FALSE), Ref(primitive))
            /\ UNCHANGED <<mergeVars, mountVars, clock, map, storeRest, droneTrails, entities, divs,
                           listeners, divPoints>>

\* an updater that returns false: nothing changes but the record of the call and of
\* what it was given
Refuses(op, id, arg) ==
    /\ last' = Call(op, id, arg, Bool(MapHas(graphicMap, id)), Bool(FALSE))
    /\ UNCHANGED <<mergeVars, mountVars, clock, storeVars, sceneVars>>

\* a variant of the updaters' check of their input that lets every input pass
nothingGivenNever(given) == FALSE
\* length === undefined && positions === undefined: the call names nothing to change
nothingGiven(given) == given = <<>>

\* a variant of the backup of the old parameters that starts from nothing
WithGivenAlone(opts, given) == given
\* { ...opts, [field]: value } when value is given (in DOMAIN given)
WithGiven(opts, given) ==
    [f \in (DOMAIN opts) \cup (DOMAIN given) |->
        IF f \in DOMAIN given THEN given[f] ELSE opts[f]]

\* the fields the engine needs defined to build a wave of the kind (toRadians of the
\* angles, the length and bottom radius of the CylinderGeometry); with one undefined
\* a checking build of the engine throws and a release build computes on
WaveFields(lengthField) ==
    {"positions", "heading", "pitch", lengthField}
        \cup (IF lengthField = "length" THEN {"bottomRadius"} ELSE {"horizontalAngle"})

\* a variant of the replacement in the scene that leaves the old primitive in it
addBesidePrimitive(scene, old, new) == scene \cup {new}
\* primitives.remove(oldPrimitive); primitives.add(newPrimitive)
replacePrimitive(scene, old, new) == (scene \ {old}) \cup {new}

\* geometry.ts updateConeLengthOrPosition and updateRectangularPyramidLengthOrPosition:
\* lengthField is "length" for the cone, "height" for the pyramid
updateLengthOrPosition(op, kind, lengthField, id, given) ==
    IF getMapOf(map) = Null THEN Refuses(op, id, given)
    ELSE IF nothingGiven(given) THEN Refuses(op, id, given)
    ELSE IF ~hasEffect(id) THEN Refuses(op, id, given)
    ELSE LET oldPrimitive == getGraphicMapOf(graphicMap, id)
             opts == WithGiven(oldPrimitive.opts, given)
             h == nextHandle + 1
             field(f) == IF f \in DOMAIN opts THEN opts[f] ELSE Undef
             newPrimitive ==
                 Graphic(h, kind, opts,
                         ModelMatrix(field("positions"), field("heading"),
                                     field("pitch"), field(lengthField)))
             replaced ==
                 /\ nextHandle < MaxObjects
                 /\ primitives' = replacePrimitive(primitives, oldPrimitive.h, h)
                 /\ graphicMap' = setGraphicMapTo(graphicMap, id, newPrimitive)
                 /\ nextHandle' = h
                 /\ last' = Call(op, id, given, Bool(TRUE), Bool(TRUE))
                 /\ UNCHANGED <<mergeVars, mountVars, clock, map, storeRest, droneTrails, entities, divs,
                                listeners, divPoints>>
         IN IF "positions" \notin DOMAIN opts
            \* destructuring undefined throws, the catch returns false
            THEN Refuses(op, id, given)
            ELSE IF WaveFields(lengthField) \subseteq DOMAIN opts
            THEN replaced
            ELSE Refuses(op, id, given) \/ replaced

updateConeLengthOrPosition(id, given) ==
    updateLengthOrPosition("updateConeLengthOrPosition", "cone", "length", id, given)

updateRectangularPyramidLengthOrPosition(id, given) ==
    updateLengthOrPosition("updateRectangularPyramidLengthOrPosition", "pyramid",
                           "height", id, given)

\* a variant of the cone's cache of its pose that stores nothing
cachePoseNowhere(opts, heading, pitch) == opts
\* opts.heading = heading; opts.pitch = pitch
cachePose(opts, heading, pitch) == WithGiven(opts, [heading |-> heading, pitch |-> pitch])

\* geometry.ts updateConePose and updateRectangularPyramidWavePose: the cone's pose is
\* cached in its options (cache), the pyramid's is not
updatePose(op, lengthField, cache, id, heading, pitch) ==
    IF getMapOf(map) = Null THEN Refuses(op, id, <<heading, pitch>>)
    ELSE IF ~hasEffect(id) THEN Refuses(op, id, <<heading, pitch>>)
    ELSE LET primitive == getGraphicMapOf(graphicMap, id)
             opts == primitive.opts
             M == ModelMatrix(opts.positions, heading, pitch,
                              IF lengthField \in DOMAIN opts THEN opts[lengthField]
                              ELSE Undef)
             posed == [primitive EXCEPT
                          !.matrix = M,
                          !.opts = IF cache THEN cachePose(opts, heading, pitch)
                                   ELSE opts]
         IN IF "positions" \notin DOMAIN opts
            \* no _originalOptions to read the position from: the catch returns false
            THEN Refuses(op, id, <<heading, pitch>>)
            ELSE /\ graphicMap' = IF cache THEN setGraphicMapTo(graphicMap, id, posed)
                                  ELSE MapSet(graphicMap, id, posed)
                 /\ last' = Call(op, id, <<heading, pitch>>, Bool(TRUE), Bool(TRUE))
                 /\ UNCHANGED <<mergeVars, mountVars, clock, map, storeRest, droneTrails, sceneVars>>

updateConePose(id, heading, pitch) ==
    updatePose("updateConePose", "length", TRUE, id, heading, pitch)

updateRectangularPyramidWavePose(id, heading, pitch) ==
    updatePose("updateRectangularPyramidWavePose", "height", FALSE, id, heading, pitch)

-----------------------------------------------------------------------------
(* The component specification: a page that stores or drops the viewer and *)
(* calls the component functions in any order.                             *)

\* the calls the page makes: a wave is made at Here with a level pose and is then
\* lengthened, moved or turned
DronePositions == {Here}
ConeOptions ==
    {[positions |-> Here, heading |-> 0, pitch |-> 0, length |-> 100,
      bottomRadius |-> 50, thickness |-> 1, color |-> "red"]}
PyramidOptions ==
    {[positions |-> Here, heading |-> 0, pitch |-> 0, height |-> 100,
      horizontalAngle |-> 30, verticalAngle |-> 30, color |-> "red"]}
ConeChanges == {[length |-> 200]}
PyramidChanges == {[positions |-> There]}
Poses == {<<90, 90>>}

Next ==
    \/ \E m \in MapInstances : setMap(m)
    \/ \E id \in Ids : setPointEntityByImg(id)
    \/ \E id \in Ids : setPointPrimitiveByImg(id)
    \/ \E p \in divPoints : destroy(p)
    \/ \E id \in Ids : setPointByGlb(id)
    \/ \E id \in Ids, position \in DronePositions : setDronePointByGlb(id, position)
    \/ \E id \in Ids, o \in ConeOptions : conicalWave(id, o)
    \/ \E id \in Ids, o \in PyramidOptions : rectangularPyramidWave(id, o)
    \/ \E id \in Ids, given \in ConeChanges : updateConeLengthOrPosition(id, given)
    \/ \E id \in Ids, given \in PyramidChanges :
          updateRectangularPyramidLengthOrPosition(id, given)
    \/ \E id \in Ids, q \in Poses :
          updateConePose(id, q[1], q[2])
    \/ \E id \in Ids, q \in Poses :
          updateRectangularPyramidWavePose(id, q[1], q[2])

Init == MergeIdle /\ StoreInit /\ SceneInit /\ MountIdle /\ last = NoCall

Spec == Init /\ [][Next]_vars

-----------------------------------------------------------------------------
(* The wave specification: a page that stores or drops the viewer, creates  *)
(* cones and pyramids and updates them.                                     *)

WaveConeChanges ==
    {<<>>, [length |-> 200], [positions |-> There]}
WavePyramidChanges ==
    {<<>>, [height |-> 200]}

NextWave ==
    \/ \E m \in MapInstances : setMap(m)
    \/ \E id \in Ids, o \in ConeOptions : conicalWave(id, o)
    \/ \E id \in Ids, o \in PyramidOptions : rectangularPyramidWave(id, o)
    \/ \E id \in Ids, given \in WaveConeChanges : updateConeLengthOrPosition(id, given)
    \/ \E id \in Ids, given \in WavePyramidChanges :
          updateRectangularPyramidLengthOrPosition(id, given)
    \/ \E id \in Ids, q \in Poses :
          updateConePose(id, q[1], q[2])
    \/ \E id \in Ids, q \in Poses :
          updateRectangularPyramidWavePose(id, q[1], q[2])

SpecWave == Init /\ [][NextWave]_vars

-----------------------------------------------------------------------------
(* The trail specification: drones report positions while time passes and  *)
(* the page sets the retention time.                                       *)

\* the most points a trail is let grow to, and the most steps of time
MaxTrail == 3
MaxTicks == 4
\* the seconds that pass between two looks at the clock
Elapsed == {15}
\* positions a drone reports, in metres along a line: neighbours are one metre apart
TrailSamples == {<<0, 0, 0>>, <<1, 0, 0>>, <<2, 0, 0>>}

\* the trail the store holds for the drone, an empty one when it holds none
TrailOf(trails, droneId) ==
    IF MapHas(trails, trailKey(droneId)) THEN MapGet(trails, trailKey(droneId))
    ELSE TimedTrail(<<>>, <<>>)
\* its points
TrailPoints(trails, droneId) == TrailOf(trails, droneId).points

\* time passes
Tick ==
    /\ \E d \in Elapsed : clock < MaxTicks * d /\ clock' = clock + d
    /\ UNCHANGED <<mergeVars, storeVars, sceneVars, mountVars, last>>

\* a call of setPath().setDroneTrail(droneId, position)
sampleDroneTrail(droneId, position) ==
    /\ Len(TrailPoints(droneTrails, droneId)) < MaxTrail
    /\ droneTrails' = setPathDroneTrail(droneTrails, droneId, position, clock,
                                        getTrailTimeOf(trailTime))
    /\ last' = Call("setPath.setDroneTrail", droneId, position,
                    Bool(hasDroneTrailIn(droneTrails, droneId)), Undef)
    /\ UNCHANGED <<mergeVars, mountVars, clock, sceneVars, map, storeRest, graphicMap>>

NextTrail ==
    \/ \E time \in TrailTimes : setTrailTime(time)
    \/ Tick
    \/ \E id \in Ids, position \in TrailSamples : sampleDroneTrail(id, position)

SpecTrail == Init /\ [][NextTrail]_vars

-----------------------------------------------------------------------------
(* The creation specification: a page that stores or drops the viewer and  *)
(* calls nothing but the six creators.                                      *)

NextCreate ==
    \/ \E m \in MapInstances : setMap(m)
    \/ \E id \in Ids : setPointEntityByImg(id)
    \/ \E id \in Ids : setPointPrimitiveByImg(id)
    \/ \E id \in Ids : setPointByGlb(id)
    \/ \E id \in Ids, position \in DronePositions : setDronePointByGlb(id, position)
    \/ \E id \in Ids, o \in ConeOptions : conicalWave(id, o)
    \/ \E id \in Ids, o \in PyramidOptions : rectangularPyramidWave(id, o)

SpecCreate == Init /\ [][NextCreate]_vars

-----------------------------------------------------------------------------
(* The cesiumMap component (components/cesiumMap/index.vue): onMounted    *)
(* starts the asynchronous initCesium, which runs from one await to the    *)
(* next in one step each; onUnmounted may come between any two of them.    *)
(* The page of views/map/index.vue handles the onload event.               *)

\* an object of the given properties
Obj(f) == [t |-> "obj", f |-> f]
\* the files a url may hold: a full map configuration with the terrain shown or
\* hidden, one without a scene section, or nothing when the fetch failed
MapFile(show) ==
    Obj([control |-> EmptyObj,
         terrain |-> Obj([show |-> Prim(show)]),
         scene |-> Obj([center |-> Obj([lng |-> Prim(0)]), globe |-> EmptyObj])])
FileWithoutScene == Obj([control |-> EmptyObj, terrain |-> Obj([show |-> Prim(0)])])
UrlFiles == {Undef, MapFile(1), MapFile(0), FileWithoutScene}
ConfigFiles == {Undef} \cup {Obj([trailTime |-> Prim(time)]) : time \in TrailTimes}
\* the options of the page: a scene centre
PageOptions == Obj([scene |-> Obj([center |-> Obj([lng |-> Prim(1)])])])
\* the props of the component
Props == [url : BOOLEAN, config : BOOLEAN, options : {"none", "plain", "promise"}]

\* v.k can be read: v is neither undefined nor null
Readable(v) == v.t \notin {"undefined", "null"}

\* where the component stands: the position of initCesium, its local mapOptions, the
\* container read for the constructor, the component's map, the viewer, the event,
\* the log, the template ref, the lifecycle and the store's trail time
Component ==
    [pc |-> initPc, mo |-> mapOptions.value, held |-> heldContainer,
     map |-> componentMap, viewer |-> viewerState, emitted |-> emitted,
     caught |-> caught, container |-> cesiumContainer, life |-> lifecycle,
     trailTime |-> trailTime]

\* the catch of initCesium: the error is logged and the promise resolves
Catch(c) == [c EXCEPT !.pc = "resolved", !.caught = TRUE]

\* lines 68-148 after the terrain provider is there: the viewer is constructed on
\* the container read before; ok is whether the engine can construct it
Construct(c, ok) ==
    IF ~c.held \/ ~ok THEN Catch(c)
    ELSE LET made == [c EXCEPT !.map = Viewer, !.viewer = "alive"]
             scene == Get(made.mo, "scene")
         IN IF ~Readable(scene) \/ ~Readable(Get(scene, "center"))
               \/ ~Readable(Get(scene, "globe"))
            THEN Catch(made)
            ELSE [made EXCEPT !.pc = "resolved", !.emitted = c.life]

\* lines 66-84 up to the await of the terrain provider: the constructor's arguments
\* are evaluated in order, the container first
Try(c, ok) ==
    LET read == [c EXCEPT !.held = c.container]
    IN IF ~Readable(read.mo) \/ ~Readable(Get(read.mo, "control"))
          \/ ~Readable(Get(read.mo, "terrain"))
       THEN Catch(read)
       ELSE IF Truthy(Get(Get(read.mo, "terrain"), "show"))
       THEN [read EXCEPT !.pc = "awaitTerrain"]
       ELSE Construct(read, ok)

\* lines 59-63: the options prop laid over what the url gave
WithOptions(c, exOptions, ok) ==
    Try([c EXCEPT !.mo = IF Truthy(c.mo) THEN merge(c.mo, exOptions, TRUE, TRUE).ret
                         ELSE exOptions], ok)

\* lines 50-57
AfterConfig(c, ok) ==
    IF props.options = "none" THEN Try(c, ok)
    ELSE IF props.options = "promise" THEN [c EXCEPT !.pc = "awaitOptions"]
    ELSE WithOptions(c, PageOptions, ok)

\* lines 45-48
AfterUrl(c, ok) ==
    IF props.config THEN [c EXCEPT !.pc = "awaitConfig"] ELSE AfterConfig(c, ok)

\* lines 37-43
Start(c, ok) ==
    IF ~c.container THEN [c EXCEPT !.pc = "resolved"]
    ELSE IF props.url THEN [c EXCEPT !.pc = "awaitUrl"]
    ELSE AfterUrl(c, ok)

\* the component has come to c; an onload emitted while the component is mounted
\* reaches mapOnLoad of the page, which stores the status and the viewer
Becomes(c) ==
    /\ initPc' = c.pc
    /\ mapOptions' = [mapOptions EXCEPT !.value = c.mo]
    /\ heldContainer' = c.held
    /\ componentMap' = c.map
    /\ viewerState' = c.viewer
    /\ emitted' = c.emitted
    /\ caught' = c.caught
    /\ cesiumContainer' = c.container
    /\ lifecycle' = c.life
    /\ trailTime' = c.trailTime
    /\ IF c.emitted = "mounted" /\ emitted = "no"
       THEN isMapLoaded' = LOADED /\ map' = c.map
       ELSE UNCHANGED <<isMapLoaded, map>>
    /\ UNCHANGED <<pc, target, source, options, merged, graphicLayer, isLayerInitialized,
                   droneTrails, graphicMap, sceneVars, props, clock, last>>

\* onMounted: the template ref holds the element, initCesium starts
onMounted ==
    /\ lifecycle = "created"
    /\ \E ok \in BOOLEAN :
          Becomes(Start([Component EXCEPT !.container = TRUE, !.life = "mounted"], ok))

\* await getJsonFile(props.url) resolves to the file, or to undefined when the fetch
\* failed
urlFetched ==
    /\ initPc = "awaitUrl"
    /\ \E file \in UrlFiles, ok \in BOOLEAN :
          Becomes(AfterUrl([Component EXCEPT !.mo = file], ok))

\* await getJsonFile(props.config) resolves; configOptions.trailTime is read outside
\* the try, so with no file the promise of initCesium rejects
configFetched ==
    /\ initPc = "awaitConfig"
    /\ \E configOptions \in ConfigFiles, ok \in BOOLEAN :
          IF ~Readable(configOptions)
          THEN Becomes([Component EXCEPT !.pc = "rejected"])
          ELSE Becomes(AfterConfig([Component EXCEPT
                                       !.trailTime = Get(configOptions, "trailTime").v],
                                   ok))

\* await props.options settles: the options it resolves to are laid over, or it
\* rejects outside the try
optionsResolved ==
    /\ initPc = "awaitOptions"
    /\ \E settled \in BOOLEAN, ok \in BOOLEAN :
          IF settled THEN Becomes(WithOptions(Component, PageOptions, ok))
          ELSE Becomes([Component EXCEPT !.pc = "rejected"])

\* await CesiumTerrainProvider.fromUrl settles: the viewer is constructed, or the
\* rejection is caught
terrainLoaded ==
    /\ initPc = "awaitTerrain"
    /\ \E settled \in BOOLEAN, ok \in BOOLEAN :
          IF settled THEN Becomes(Construct(Component, ok))
          ELSE Becomes(Catch(Component))

\* onUnmounted: the template ref is emptied; the viewer the component holds is
\* destroyed
onUnmounted ==
    /\ lifecycle = "mounted"
    /\ Becomes([Component EXCEPT
                   !.life = "unmounted",
                   !.container = FALSE,
                   !.viewer = IF componentMap # NoMap THEN "destroyed" ELSE @,
                   !.map = NoMap])

NextMount ==
    \/ onMounted
    \/ urlFetched
    \/ configFetched
    \/ optionsResolved
    \/ terrainLoaded
    \/ onUnmounted

\* the page's setup has set the status to LOADING; the props are any of Props
InitMount ==
    /\ MergeIdle /\ SceneInit /\ last = NoCall
    /\ map = NoMap
    /\ isMapLoaded = LOADING
    /\ graphicLayer = NoMap
    /\ isLayerInitialized = FALSE
    /\ droneTrails = <<>>
    /\ graphicMap = <<>>
    /\ trailTime = 30
    /\ props \in Props
    /\ initPc = "idle"
    /\ lifecycle = "created"
    /\ cesiumContainer = FALSE
    /\ componentMap = NoMap
    /\ viewerState = "none"
    /\ heldContainer = FALSE
    /\ emitted = "no"
    /\ caught = FALSE

SpecMount == InitMount /\ [][NextMount]_vars

-----------------------------------------------------------------------------
(* Properties of objectUtils.merge and of the option assembly.             *)

\* the key chains of v that end in a value that is neither object nor array
PrimPaths(v) == {p \in LeafPaths(v) : ~IsObjectType(ValAt(v, p))}

\* C1: merge(target, source) with deep = true and overwrite = true returns an
\* object that holds, at every chain of object keys leading to a non-object leaf of
\* source, that leaf value of source, whatever target held along the chain.
C1_SourceWinsAtEveryPath ==
    (pc = "merged" /\ options.deep /\ options.overwrite /\ source.t = "obj")
        => \A p \in PrimPaths(source) : ValAt(merged.ret, p) = ValAt(source, p)

\* C2: merge(target, source, {overwrite: false}) leaves every defined leaf of target
\* as it was: the value at each key chain of target that ends in a defined non-object
\* value is the same after the call.
C2_NoOverwriteKeepsTarget ==
    (pc = "merged" /\ options.deep /\ ~options.overwrite /\ target.t = "obj")
        => \A p \in PrimPaths(target) : ValAt(merged.tgt, p) = ValAt(target, p)

\* C3: whenever the target argument is an object or an array, merge returns that
\* same target object, for every combination of deep and overwrite and for object
\* and array sources alike.
C3_ReturnsTarget ==
    (pc = "merged" /\ IsObjectType(target) /\ IsObjectType(source))
        => merged.id = "target"

\* C8: when the url file and the options prop are both given (both objects), the
\* effective map options hold the options prop's value at every key chain that ends
\* in a non-object leaf of the options prop.
C8_OptionsOverrideUrl ==
    (pc = "configured" /\ mapOptions.urlGiven /\ target.t = "obj" /\ source.t = "obj")
        => \A p \in PrimPaths(source) : ValAt(mapOptions.value, p) = ValAt(source, p)

\* C13: for merge(targetArray, sourceArray) with deep = true and overwrite = true the
\* result has length max(|target|, |source|), and at every index whose source element
\* is a primitive value the result holds the source's element, also where target held
\* another primitive.
C13_ArraySourceWins ==
    (pc = "merged" /\ options.deep /\ options.overwrite
        /\ IsArray(target) /\ IsArray(source))
        => /\ Length(merged.ret) = IF Length(target) >= Length(source)
                                   THEN Length(target) ELSE Length(source)
           /\ \A i \in 0..(Length(source) - 1) :
                 ~IsObjectType(Get(source, IdxKey(i)))
                    => Get(merged.ret, IdxKey(i)) = Get(source, IdxKey(i))

-----------------------------------------------------------------------------
(* Properties of the store.                                                *)

RegistryWrites == {"setGraphicMap", "removeGraphicMap"}
TrailWrites == {"setDroneTrail", "clearDroneTrail", "clearAllDroneTrails"}

\* C5: the registry is a plain dictionary.  A setGraphicMap(id, g) leaves g under
\* id; getGraphicMap(id) and hasGraphicMap(id) answer from the entry as it is; and
\* every step that is not a setGraphicMap or removeGraphicMap of that very id (setMap,
\* setTrailTime, setMapLoadSta, the trail operations, clearLayer, resetLayer, a set or
\* remove of another id) leaves the entry of id as it was.  So the object of the most
\* recent set is what get returns until the id is removed.
C5_RegistryIsDictionary ==
    [][\A id \in Ids :
          /\ (last'.op = "setGraphicMap" /\ last'.id = id)
                => /\ hasGraphicMapIn(graphicMap', id)
                   /\ Ref(getGraphicMapOf(graphicMap', id)) = last'.arg
          /\ (last'.op = "getGraphicMap" /\ last'.id = id)
                => last'.ret = Ref(MapGet(graphicMap, id))
          /\ (last'.op = "hasGraphicMap" /\ last'.id = id)
                => last'.ret = Bool(MapHas(graphicMap, id))
          /\ ~(last'.op \in RegistryWrites /\ last'.id = id)
                => /\ MapHas(graphicMap', id) = MapHas(graphicMap, id)
                   /\ MapGet(graphicMap', id) = MapGet(graphicMap, id)
      ]_vars

\* C5 happens: a get finds the object registered under its id after the trail
\* store, the trail time, the load status and the map have all been written
C5_Witness ==
    /\ last.op = "getGraphicMap"
    /\ MapHas(graphicMap, last.id)
    /\ last.ret = Ref(graphicMap[last.id])
    /\ droneTrails # <<>>
    /\ trailTime # 30
    /\ isMapLoaded = LOADED
    /\ map = Viewer

\* C9: per drone d, setDroneTrail(d, t) leaves hasDroneTrail(d) true and
\* getDroneTrail(d) equal to t; clearDroneTrail(d) leaves hasDroneTrail(d) false and
\* getDroneTrail(d) undefined; both leave the trail of every other drone as it was;
\* hasDroneTrail and getDroneTrail answer from the store as it is.
C9_TrailPerDrone ==
    [][\A d \in Ids :
          /\ (last'.op = "setDroneTrail" /\ last'.id = d)
                => /\ hasDroneTrailIn(droneTrails', d)
                   /\ getDroneTrailOf(droneTrails', d) = last'.arg
                   /\ \A e \in Ids \ {d} :
                         getDroneTrailOf(droneTrails', e) = getDroneTrailOf(droneTrails, e)
          /\ (last'.op = "clearDroneTrail" /\ last'.id = d)
                => /\ ~hasDroneTrailIn(droneTrails', d)
                   /\ getDroneTrailOf(droneTrails', d) = Undef
                   /\ \A e \in Ids \ {d} :
                         getDroneTrailOf(droneTrails', e) = getDroneTrailOf(droneTrails, e)
          /\ (last'.op = "hasDroneTrail" /\ last'.id = d)
                => last'.ret = Bool(MapGet(droneTrails, trailKey(d)) # Undef)
          /\ (last'.op = "getDroneTrail" /\ last'.id = d)
                => last'.ret = MapGet(droneTrails, trailKey(d))
      ]_vars

\* C9 happens: a drone's trail was cleared while another drone keeps its trail
C9_Witness ==
    /\ last.op = "clearDroneTrail"
    /\ last.before = Bool(TRUE)
    /\ ~hasDroneTrailIn(droneTrails, last.id)
    /\ \E e \in Ids \ {last.id} : getDroneTrailOf(droneTrails, e) = Trail(<<Here, There>>)

\* C10: clearAllDroneTrails leaves no drone with a trail, however many trails were
\* stored, and leaves the graphic registry as it was.
C10_ClearAllTrails ==
    [][last'.op = "clearAllDroneTrails"
          => /\ \A d \in Ids : ~hasDroneTrailIn(droneTrails', d)
             /\ droneTrails' = <<>>
             /\ graphicMap' = graphicMap
      ]_vars

\* C10 happens: two trails were cleared at once while the registry holds objects
C10_Witness ==
    /\ last.op = "clearAllDroneTrails"
    /\ last.before = Num(Cardinality(Ids))
    /\ droneTrails = <<>>
    /\ DOMAIN graphicMap = Ids

-----------------------------------------------------------------------------
(* Properties of the component functions.                                  *)

PointOps == {"setPointEntityByImg", "setPointPrimitiveByImg", "setPointByGlb",
             "setDronePointByGlb"}
CreateOps == PointOps \cup {"conicalWave", "rectangularPyramidWave"}
UpdateOps == {"updateConeLengthOrPosition", "updateConePose",
              "updateRectangularPyramidWavePose",
              "updateRectangularPyramidLengthOrPosition"}

\* the objects in the scene: entities, primitives and point divs
SceneObjects == {e.h : e \in entities} \cup primitives \cup divs
\* the objects the registry holds
Registered == {graphicMap[id].h : id \in DOMAIN graphicMap}

\* C4: in any sequence of calls of the six creators, a create call with an id the
\* registry holds adds nothing to the scene and leaves the registry as it was, so
\* the scene holds one object per registered id, the one its first successful
\* create call made, and no object was ever made besides these.
C4_NoDuplicateCreation ==
    /\ [](/\ SceneObjects = Registered
          /\ Cardinality(SceneObjects) = Cardinality(DOMAIN graphicMap)
          /\ nextHandle = Cardinality(DOMAIN graphicMap))
    /\ [][(last'.op \in CreateOps /\ MapHas(graphicMap, last'.id))
             => UNCHANGED <<sceneVars, graphicMap, droneTrails>>]_vars

\* C4 happens: with a viewer stored, a wave creator was called with the id of a
\* point made before and a point creator with the id of a wave made before
C4_Witness ==
    /\ map = Viewer
    /\ last.op = "conicalWave"
    /\ last.before = Bool(TRUE)
    /\ MapHas(graphicMap, last.id)
    /\ graphicMap[last.id].kind = "drone"
    /\ \E id \in DOMAIN graphicMap \ {last.id} : graphicMap[id].kind = "pyramid"

\* C6 as stated: a point-creating call with an id the registry holds returns the
\* object registered under that id.
C6_ReturnsRegistered ==
    [][(last'.op \in PointOps /\ MapHas(graphicMap, last'.id))
          => last'.ret = Ref(MapGet(graphicMap, last'.id))]_vars

\* C6 with the viewer stored: while a map instance is stored, a point-creating call
\* with an id the registry holds returns the object registered under that id, and
\* the registry keeps it, so repeating the call returns the same object.
C6_ReturnsRegisteredWithMap ==
    [][(last'.op \in PointOps /\ MapHas(graphicMap, last'.id) /\ map # NoMap)
          => /\ last'.ret = Ref(MapGet(graphicMap, last'.id))
             /\ graphicMap' = graphicMap]_vars

\* C6 happens: with a viewer stored, a point creator was called with a registered id
\* and returned the object registered, which another kind of creator had made
C6_Witness ==
    /\ map = Viewer
    /\ last.op = "setPointByGlb"
    /\ last.before = Bool(TRUE)
    /\ MapHas(graphicMap, last.id)
    /\ last.ret = Ref(graphicMap[last.id])
    /\ graphicMap[last.id].kind = "divPoint"

\* C7: with no map instance stored, every creator returns null and every updater
\* returns false, and the call leaves the registry and the drone-trail store as they
\* were.
C7_NoMapNoEffect ==
    [][(map = NoMap /\ last'.op \in CreateOps \cup UpdateOps)
          => /\ last'.op \in CreateOps => last'.ret = Null
             /\ last'.op \in UpdateOps => last'.ret = Bool(FALSE)
             /\ graphicMap' = graphicMap
             /\ droneTrails' = droneTrails]_vars

\* C7 happens: with the viewer dropped, an updater was called on a wave that is
\* registered and returned false
C7_Witness ==
    /\ map = NoMap
    /\ last.op = "updateConePose"
    /\ last.ret = Bool(FALSE)
    /\ MapHas(graphicMap, last.id)
    /\ graphicMap[last.id].kind = "cone"
    /\ droneTrails # <<>>

-----------------------------------------------------------------------------
(* Properties of the cesiumMap component.                                  *)

\* initCesium has run to its end
InitCesiumOver == initPc \in {"resolved", "rejected"}

\* C14: once the component is unmounted and initCesium has run to its end, whatever
\* await the unmount fell into, no viewer is left undestroyed and no onload was
\* emitted after the unmount.
C14_UnmountReleasesViewer ==
    (lifecycle = "unmounted" /\ InitCesiumOver)
        => (viewerState # "alive" /\ emitted # "unmounted")

\* C15: the promise of initCesium never rejects, whatever file cannot be fetched, and
\* where the catch logged a failure no onload was emitted.
C15_InitCesiumNeverRejects ==
    /\ initPc # "rejected"
    /\ caught => emitted = "no"

-----------------------------------------------------------------------------
(* Properties of the wave updaters.                                        *)

LengthOps == {"updateConeLengthOrPosition", "updateRectangularPyramidLengthOrPosition"}

\* C16: in any sequence of wave create and update calls, the scene holds exactly one
\* primitive per registered id and it is the one the registry holds, and a successful
\* length-or-position update takes the primitive registered before out of the scene
\* and puts the newly registered one in.
C16_ReplacesSceneObject ==
    /\ [](/\ primitives = Registered
          /\ Cardinality(primitives) = Cardinality(DOMAIN graphicMap))
    /\ [][(last'.op \in LengthOps /\ last'.ret = Bool(TRUE))
             => /\ MapHas(graphicMap, last'.id)
                /\ MapHas(graphicMap', last'.id)
                /\ graphicMap[last'.id].h \notin primitives'
                /\ graphicMap'[last'.id].h \in primitives'
                /\ graphicMap'[last'.id].h \notin primitives]_vars

\* C16 happens: a wave was created and replaced twice, the second time by the pyramid
\* updater, and the scene holds the third primitive alone
C16_Witness ==
    /\ last.op = "updateRectangularPyramidLengthOrPosition"
    /\ last.ret = Bool(TRUE)
    /\ DOMAIN graphicMap = {last.id}
    /\ nextHandle >= 3
    /\ primitives = {nextHandle}
    /\ graphicMap[last.id].h = nextHandle

\* C17: a length-or-position updater called with neither a length (height) nor
\* positions, or with an id the registry does not hold, returns false and leaves the
\* registry and the scene as they were, as does every call that returns false; a
\* call returns true only when it put a new primitive in the place of the one that
\* was registered under the id.
C17_RefusesWithoutChange ==
    [][last'.op \in LengthOps
          => /\ (last'.arg = <<>> \/ ~MapHas(graphicMap, last'.id))
                   => last'.ret = Bool(FALSE)
             /\ last'.ret = Bool(FALSE) => UNCHANGED <<graphicMap, sceneVars>>
             /\ last'.ret \in {Bool(FALSE), Bool(TRUE)}
             /\ last'.ret = Bool(TRUE)
                   => /\ MapHas(graphicMap, last'.id)
                      /\ MapHas(graphicMap', last'.id)
                      /\ graphicMap'[last'.id].h # graphicMap[last'.id].h
                      /\ graphicMap[last'.id].h \in primitives \ primitives'
                      /\ graphicMap'[last'.id].h \in primitives' \ primitives]_vars

\* C17 happens: with a viewer stored, the cone updater was called with nothing to
\* change for a registered cone and returned false
C17_Witness ==
    /\ map = Viewer
    /\ last.op = "updateConeLengthOrPosition"
    /\ last.arg = <<>>
    /\ last.ret = Bool(FALSE)
    /\ MapHas(graphicMap, last.id)
    /\ graphicMap[last.id].kind = "cone"
    /\ primitives = {graphicMap[last.id].h}

\* the options of a cone the cone updater is never given
ConeKept == {"heading", "pitch", "bottomRadius", "thickness", "color"}

\* C18: a successful updateConeLengthOrPosition stores what it was given and keeps the
\* rest: given only a length the stored positions stay, given only positions the
\* stored length stays, and the stored heading, pitch, bottomRadius, thickness and
\* color of the new primitive are those of the primitive it replaced; the new
\* primitive's matrix is built from the options stored with it.
C18_ChangesOnlySupplied ==
    [][(last'.op = "updateConeLengthOrPosition" /\ last'.ret = Bool(TRUE))
          => LET old == graphicMap[last'.id].opts
                 new == graphicMap'[last'.id].opts
                 given == last'.arg
                 kept(f) == f \in DOMAIN old => (f \in DOMAIN new /\ new[f] = old[f])
                 held(f) == IF f \in DOMAIN new THEN new[f] ELSE Undef
             IN /\ \A f \in DOMAIN given : f \in DOMAIN new /\ new[f] = given[f]
                /\ "positions" \notin DOMAIN given => kept("positions")
                /\ "length" \notin DOMAIN given => kept("length")
                /\ \A f \in ConeKept : kept(f)
                /\ DOMAIN new = DOMAIN old \cup DOMAIN given
                /\ graphicMap'[last'.id].matrix
                      = ModelMatrix(held("positions"), held("heading"), held("pitch"),
                                    held("length"))]_vars

\* C18 happens: a cone that was given a new length and a new pose before was given
\* new positions alone, and the new primitive holds the length, the pose and the
\* rest with the new positions
C18_Witness ==
    /\ last.op = "updateConeLengthOrPosition"
    /\ last.arg = [positions |-> There]
    /\ last.ret = Bool(TRUE)
    /\ MapHas(graphicMap, last.id)
    /\ graphicMap[last.id].opts
          = [positions |-> There, heading |-> 90, pitch |-> 90, length |-> 200,
             bottomRadius |-> 50, thickness |-> 1, color |-> "red"]

\* the heading and pitch stored in the options of a wave
StoredPose(primitive) ==
    <<IF "heading" \in DOMAIN primitive.opts THEN primitive.opts.heading ELSE Undef,
      IF "pitch" \in DOMAIN primitive.opts THEN primitive.opts.pitch ELSE Undef>>

\* C19: a successful updateConePose stores the heading and pitch it was given in the
\* options of the wave; no other call changes the pose stored for a registered id;
\* and a successful updateConeLengthOrPosition builds the matrix of the replacement
\* with the pose stored for the primitive it replaces and stores that pose with it.
C19_KeepsLastPose ==
    [][/\ (last'.op = "updateConePose" /\ last'.ret = Bool(TRUE))
            => /\ MapHas(graphicMap', last'.id)
               /\ StoredPose(graphicMap'[last'.id]) = last'.arg
               /\ graphicMap'[last'.id].matrix.heading = last'.arg[1]
               /\ graphicMap'[last'.id].matrix.pitch = last'.arg[2]
       /\ \A id \in DOMAIN graphicMap :
             ~(last'.op = "updateConePose" /\ last'.ret = Bool(TRUE) /\ last'.id = id)
                => /\ MapHas(graphicMap', id)
                   /\ StoredPose(graphicMap'[id]) = StoredPose(graphicMap[id])
       /\ (last'.op = "updateConeLengthOrPosition" /\ last'.ret = Bool(TRUE))
            => /\ graphicMap'[last'.id].h # graphicMap[last'.id].h
               /\ graphicMap'[last'.id].matrix.heading
                     = StoredPose(graphicMap[last'.id])[1]
               /\ graphicMap'[last'.id].matrix.pitch
                     = StoredPose(graphicMap[last'.id])[2]]_vars

\* C19 happens: a cone created level was given a pose and then a new length, and the
\* replacement has the pose and not the one given at creation
C19_Witness ==
    /\ last.op = "updateConeLengthOrPosition"
    /\ last.arg = [length |-> 200]
    /\ last.ret = Bool(TRUE)
    /\ MapHas(graphicMap, last.id)
    /\ graphicMap[last.id].kind = "cone"
    /\ graphicMap[last.id].matrix = ModelMatrix(Here, 90, 90, 200)
    /\ StoredPose(graphicMap[last.id]) = <<90, 90>>
    /\ \A o \in ConeOptions : <<o.heading, o.pitch>> # <<90, 90>>

-----------------------------------------------------------------------------
(* Properties of the trail maintenance.                                    *)

\* every two neighbours of the list are farther apart than the threshold
Spaced(points) ==
    \A i \in 1..(Len(points) - 1) :
        Farther(points[i + 1], points[i], DistanceThreshold)

\* the list is what is left of the other after dropping points from its front
IsSuffix(points, of) ==
    /\ Len(points) <= Len(of)
    /\ points = SubSeq(of, Len(of) - Len(points) + 1, Len(of))

\* the sample is within the threshold of the last point of the list
Within(position, points) ==
    /\ Len(points) > 0
    /\ ~Farther(position, points[Len(points)], DistanceThreshold)

\* the step is a call of setPath().setDroneTrail: the last call is one and no time
\* has passed in the step
TrailUpdated == last'.op = "setPath.setDroneTrail" /\ clock' = clock

C12_RetentionDropsOld ==
    [][TrailUpdated
          => LET old == TrailOf(droneTrails, last'.id)
                 new == TrailOf(droneTrails', last'.id)
             IN /\ MapHas(droneTrails', trailKey(last'.id))
                /\ Len(new.times) = Len(new.points)
                /\ trailTime >= 0
                     => /\ \A i \in 1..Len(new.times) : clock - new.times[i] <= trailTime
                        /\ \A i \in 1..Len(old.times) :
                              clock - old.times[i] <= trailTime
                                 => \E j \in 1..Len(new.times) :
                                       /\ new.times[j] = old.times[i]
                                       /\ new.points[j] = old.points[i]
                /\ trailTime < 0
                     => /\ Len(new.points) >= Len(old.points)
                        /\ SubSeq(new.points, 1, Len(old.points)) = old.points
                        /\ SubSeq(new.times, 1, Len(old.times)) = old.times]_vars

\* C12 happens: under the retention time of 30 seconds a trail of two points, one of
\* them 45 seconds old, was updated and only the sample of this update is left
C12_Witness ==
    /\ last.op = "setPath.setDroneTrail"
    /\ trailTime = 30
    /\ last.before = Bool(TRUE)
    /\ TrailOf(droneTrails, last.id) = TimedTrail(<<last.arg>>, <<clock>>)
    /\ clock >= 45

=============================================================================
